---- MODULE Spec2Model ----
(***************************************************************************)
(* watcher: polls a set of watch roots for the latest modification time    *)
(* and re-runs a command when a strictly newer time is found.              *)
(* Model of src/watcher.go: main's loop, findLatestChange, selectiveWalk,  *)
(* executeAndHandle and execute.                                           *)
(***************************************************************************)
EXTENDS Integers, Sequences, FiniteSets, TLC

VARIABLES
    args,                 \* os.Args[1:]
    flagsErr,             \* the error processFlags returned, "nil" if none
    fls,                  \* flagState after processFlags: [watch, ignore]
    goos,                 \* runtime.GOOS
    fsys,                 \* the filesystem: existing path -> modification time
    pc,                   \* position of main
    currentLatestModTime, \* main's stored baseline
    latestModTime,        \* time returned by the last scan
    filename,             \* path returned by the last scan
    err,                  \* TRUE when the last scan returned an error
    dirty,                \* TRUE when the filesystem changed since the last scan
    encountered,          \* paths the function given to WalkDir was called on
    visited,              \* paths whose modification time the scan read
    order,                \* the same paths, in the order the scan read them
    modInExec,            \* entry stamped, while a child was alive, later than the
                          \* last scan's time; NoPath when none or changed again
    sendOnClosed,         \* TRUE once a signal was sent on the closed channel
    signals,              \* signals pending in the channel (capacity 1)
    tickerC,              \* ticks pending in ticker.C (capacity 1)
    ticker,               \* TRUE once time.NewTicker has run
    child,                \* number of child command processes alive
    execErr,              \* dynamic type of the error execute() last returned
    exitReport,           \* exit code executeAndHandle last printed, 0 if none
    firstExecs,           \* calls of executeAndHandle("")
    execs,                \* calls of executeAndHandle
    sigDuringChild        \* TRUE once a signal was delivered while a child was alive

vars == <<args, flagsErr, fls, goos, fsys, pc, currentLatestModTime, latestModTime,
          filename, err, dirty, encountered, visited, order, modInExec, sendOnClosed,
          signals, tickerC, ticker, child, execErr, exitReport, firstExecs, execs,
          sigDuringChild>>

-----------------------------------------------------------------------------
(* Bounds *)

\* modification times are 1..MaxTime
MaxTime == 2

-----------------------------------------------------------------------------
(* Times: time.Time{} is 0, every real modification time is later *)

ZeroTime == 0

Times == 1..MaxTime

AfterOrEqual(t, u) == t >= u

AfterNotEqual(t, u) == t # u

\* time.Time.After
After(t, u) == t > u

-----------------------------------------------------------------------------
(* Paths are strings; Chars gives the characters of each string used *)

Sep == "/"

R == "/r"
RA == "/r/a"
RD == "/r/d"
RDB == "/r/d/b"

\* the entries the walks can meet
Nodes == {R, RA, RD, RDB}

\* the entries that are created, written and removed while main runs
Volatile == {R, RA, RD}

Dirs == {R, RD}

NoPath == ""

Chars(str) ==
    CASE str = "" -> <<>>
      [] str = "/r" -> <<"/", "r">>
      [] str = "/r/a" -> <<"/", "r", "/", "a">>
      [] str = "/r/d" -> <<"/", "r", "/", "d">>
      [] str = "/r/d/b" -> <<"/", "r", "/", "d", "/", "b">>
      [] str = "a" -> <<"a">>
      [] str = "d" -> <<"d">>
      [] str = "/r/?" -> <<"/", "r", "/", "?">>
      [] str = "/r/*" -> <<"/", "r", "/", "*">>
      [] str = "*" -> <<"*">>

\* byte order of the characters used in names
Ord(c) ==
    CASE c = "*" -> 42
      [] c = "/" -> 47
      [] c = "?" -> 63
      [] c = "\\" -> 92
      [] c = "a" -> 97
      [] c = "b" -> 98
      [] c = "d" -> 100
      [] c = "r" -> 114

\* filepath.Base, as characters
Base(p) == Chars(p)[Len(Chars(p))]

\* filepath.Dir, as characters
Parent(p) == SubSeq(Chars(p), 1, Len(Chars(p)) - 2)

IsDir(p) == p \in Dirs

\* strings.HasSuffix
HasSuffix(s, suffix) ==
    /\ Len(suffix) <= Len(s)
    /\ SubSeq(s, Len(s) - Len(suffix) + 1, Len(s)) = suffix

\* strings.ReplaceAll(path, "\\", "/")
ReplaceAll(s) == [i \in 1..Len(s) |-> IF s[i] = "\\" THEN "/" ELSE s[i]]

RECURSIVE Match(_, _)
\* filepath.Match for patterns of literals, '*' and '?'
Match(pattern, name) ==
    IF pattern = <<>> THEN name = <<>>
    ELSE IF Head(pattern) = "*"
        THEN \E k \in 0..Len(name) :
                /\ \A i \in 1..k : name[i] # Sep
                /\ Match(Tail(pattern), SubSeq(name, k + 1, Len(name)))
    ELSE IF Head(pattern) = "?"
        THEN /\ name # <<>>
             /\ Head(name) # Sep
             /\ Match(Tail(pattern), Tail(name))
    ELSE /\ name # <<>>
         /\ Head(name) = Head(pattern)
         /\ Match(Tail(pattern), Tail(name))

IgnoredGlobOnly(ignore, path) ==
    \E i \in 1..Len(ignore) : Match(Chars(ignore[i]), ReplaceAll(Chars(path)))

\* the ignore loop of selectiveWalk's callback
Ignored(ignore, path) ==
    \E i \in 1..Len(ignore) :
        \/ HasSuffix(Chars(path), Chars(ignore[i]))
        \/ Match(Chars(ignore[i]), ReplaceAll(Chars(path)))

-----------------------------------------------------------------------------
(* The walk *)

NoFault == <<"none", NoPath>>

\* a filesystem access of one scan that fails
Faults ==
    {NoFault}
        \cup {<<"lstat", n>> : n \in Nodes}
        \cup {<<"readdir", n>> : n \in Dirs}
        \cup {<<"info", n>> : n \in Nodes}

RECURSIVE SortByName(_)
SortByName(S) ==
    IF S = {} THEN <<>>
    ELSE LET m == CHOOSE x \in S : \A y \in S : Ord(Base(x)) <= Ord(Base(y))
         IN  <<m>> \o SortByName(S \ {m})

\* os.ReadDir: the entries of a directory, sorted by name
ReadDir(fsy, path) ==
    SortByName({n \in DOMAIN fsy : Parent(n) = Chars(path)})

actionFilesOnly(acc, path, modTime) ==
    IF IsDir(path) THEN acc
    ELSE IF After(modTime, acc.latestModTime)
    THEN [acc EXCEPT !.latestModTime = modTime, !.filename = path,
                     !.visited = @ \cup {path}, !.order = Append(@, path)]
    ELSE [acc EXCEPT !.visited = @ \cup {path}, !.order = Append(@, path)]

actionLastWins(acc, path, modTime) ==
    IF modTime >= acc.latestModTime
    THEN [acc EXCEPT !.latestModTime = modTime, !.filename = path,
                     !.visited = @ \cup {path}, !.order = Append(@, path)]
    ELSE [acc EXCEPT !.visited = @ \cup {path}, !.order = Append(@, path)]

\* the closure findLatestChange passes to selectiveWalk
action(acc, path, modTime) ==
    IF After(modTime, acc.latestModTime)
    THEN [acc EXCEPT !.latestModTime = modTime, !.filename = path,
                     !.visited = @ \cup {path}, !.order = Append(@, path)]
    ELSE [acc EXCEPT !.visited = @ \cup {path}, !.order = Append(@, path)]

\* the function selectiveWalk passes to filepath.WalkDir, on an entry
\* whose directory listing or Lstat did not fail
WalkFn(fsy, ignore, fault, isRoot, acc0, path) ==
    LET acc == [acc0 EXCEPT !.encountered = @ \cup {path}]
    IN  IF Ignored(ignore, path) THEN [acc EXCEPT !.ret = "SkipDir"]
        ELSE IF ~isRoot /\ fault = <<"info", path>> THEN [acc EXCEPT !.ret = "err"]
        ELSE [action(acc, path, fsy[path]) EXCEPT !.ret = "nil"]

RECURSIVE walkDir(_, _, _, _, _, _)
RECURSIVE walkEntries(_, _, _, _, _)

\* filepath.walkDir's loop over the entries of a directory
walkEntries(fsy, ignore, fault, acc, dirs) ==
    IF dirs = <<>> THEN [acc EXCEPT !.ret = "nil"]
    ELSE LET r == walkDir(fsy, ignore, fault, FALSE, acc, Head(dirs))
         IN  IF r.ret = "SkipDir" THEN [r EXCEPT !.ret = "nil"]
             ELSE IF r.ret = "err" THEN r
             ELSE walkEntries(fsy, ignore, fault, r, Tail(dirs))

\* filepath.walkDir
walkDir(fsy, ignore, fault, isRoot, acc, path) ==
    LET r == WalkFn(fsy, ignore, fault, isRoot, acc, path)
    IN  IF r.ret # "nil" \/ ~IsDir(path)
        THEN IF r.ret = "SkipDir" /\ IsDir(path) THEN [r EXCEPT !.ret = "nil"] ELSE r
        ELSE IF fault = <<"readdir", path>> THEN [r EXCEPT !.ret = "err"]
        ELSE walkEntries(fsy, ignore, fault, r, ReadDir(fsy, path))

\* filepath.WalkDir(root, fn)
WalkDir(fsy, ignore, fault, acc, root) ==
    IF root \notin DOMAIN fsy \/ fault = <<"lstat", root>>
    THEN [acc EXCEPT !.ret = "err", !.encountered = @ \cup {root}]
    ELSE LET r == walkDir(fsy, ignore, fault, TRUE, acc, root)
         IN  IF r.ret = "SkipDir" THEN [r EXCEPT !.ret = "nil"] ELSE r

RECURSIVE selectiveWalk(_, _, _, _, _)
\* flagState.selectiveWalk: the roots in order, stopping at the first error
selectiveWalk(fsy, ignore, fault, acc, watch) ==
    IF watch = <<>> THEN [acc EXCEPT !.ret = "nil"]
    ELSE LET r == WalkDir(fsy, ignore, fault, acc, Head(watch))
         IN  IF r.ret = "err" THEN r
             ELSE selectiveWalk(fsy, ignore, fault, r, Tail(watch))

\* what findLatestChange returns when selectiveWalk returned r
returned(r) ==
    [latestModTime |-> r.latestModTime, filename |-> r.filename,
     err |-> (r.ret = "err"), encountered |-> r.encountered,
     visited |-> r.visited, order |-> r.order]

\* flagState.findLatestChange
findLatestChange(f, fsy, fault) ==
    returned(selectiveWalk(fsy, f.ignore, fault,
                 [latestModTime |-> ZeroTime, filename |-> NoPath,
                  encountered |-> {}, visited |-> {}, order |-> <<>>,
                  ret |-> "nil"],
                 f.watch))

-----------------------------------------------------------------------------
(* The command line *)

\* the characters of the arguments and of the paths made from them
ArgChars ==
    [str \in {"-w", "-i", "-e", "-t", "-h", "r", "r/", "[", "0", "-5", "1000",
              "50000000", "cmd", "/r", "/[", "/0", "/1000", "/50000000", "/cmd"} |->
        CASE str = "-w" -> <<"-", "w">>
          [] str = "-i" -> <<"-", "i">>
          [] str = "-e" -> <<"-", "e">>
          [] str = "-t" -> <<"-", "t">>
          [] str = "-h" -> <<"-", "h">>
          [] str = "r" -> <<"r">>
          [] str = "r/" -> <<"r", "/">>
          [] str = "[" -> <<"[">>
          [] str = "0" -> <<"0">>
          [] str = "-5" -> <<"-", "5">>
          [] str = "1000" -> <<"1", "0", "0", "0">>
          [] str = "50000000" -> <<"5", "0", "0", "0", "0", "0", "0", "0">>
          [] str = "cmd" -> <<"c", "m", "d">>
          [] str = "/r" -> <<"/", "r">>
          [] str = "/[" -> <<"/", "[">>
          [] str = "/0" -> <<"/", "0">>
          [] str = "/1000" -> <<"/", "1", "0", "0", "0">>
          [] str = "/50000000" -> <<"/", "5", "0", "0", "0", "0", "0", "0", "0">>
          [] str = "/cmd" -> <<"/", "c", "m", "d">>]

\* the string of a character sequence
Str(cs) == CHOOSE str \in DOMAIN ArgChars : ArgChars[str] = cs

\* time.Millisecond, in nanoseconds, the unit of time.Duration
Millisecond == 1000000

Granularity == 100 * Millisecond

\* the flags map; NoFlag when the argument is not a key
NoFlag == "none"

flags(arg) ==
    CASE arg \in {"-w", "--watch"} -> "flagWatch"
      [] arg \in {"-i", "--ignore"} -> "flagIgnore"
      [] arg \in {"-e", "--exec"} -> "flagExec"
      [] arg \in {"-t", "--tick-speed"} -> "flagTickSpeed"
      [] OTHER -> NoFlag

isFlagLike(arg) == Len(ArgChars[arg]) > 0 /\ Head(ArgChars[arg]) = "-"

Digits == <<"0", "1", "2", "3", "4", "5", "6", "7", "8", "9">>

IsDigit(c) == \E k \in 1..Len(Digits) : Digits[k] = c

DigitVal(c) == (CHOOSE k \in 1..Len(Digits) : Digits[k] = c) - 1

RECURSIVE ParseUint(_, _)
ParseUint(cs, acc) ==
    IF cs = <<>> THEN acc ELSE ParseUint(Tail(cs), 10 * acc + DigitVal(Head(cs)))

\* strconv.ParseInt(arg, 10, 0): an optional sign, then decimal digits only
ParseInt(arg) ==
    LET cs == ArgChars[arg]
        signed == cs # <<>> /\ Head(cs) \in {"+", "-"}
        ds == IF signed THEN Tail(cs) ELSE cs
    IN  IF ds = <<>> \/ \E k \in 1..Len(ds) : ~IsDigit(ds[k])
        THEN [err |-> TRUE, num |-> 0]
        ELSE [err |-> FALSE,
              num |-> IF signed /\ Head(cs) = "-" THEN 0 - ParseUint(ds, 0)
                      ELSE ParseUint(ds, 0)]

\* time.Duration.Round for d >= 0: the nearest multiple of m, halfway values
\* away from zero
Round(d, m) ==
    LET r == d % m IN IF r + r < m THEN d - r ELSE d + m - r

\* filepath.Clean of a path without ".", ".." and doubled separators: a
\* trailing separator is dropped
RECURSIVE Clean(_)
Clean(cs) ==
    IF Len(cs) > 1 /\ cs[Len(cs)] = Sep THEN Clean(SubSeq(cs, 1, Len(cs) - 1)) ELSE cs

\* filepath.Abs, the working directory being the root directory
Abs(path) ==
    IF ArgChars[path] # <<>> /\ Head(ArgChars[path]) = Sep THEN Str(Clean(ArgChars[path]))
    ELSE Str(<<Sep>> \o Clean(ArgChars[path]))

\* filepath.Match(pattern, "") reports a syntax error: a character class
\* that is not closed
BadPattern(pattern) ==
    \E k \in 1..Len(ArgChars[pattern]) :
        /\ ArgChars[pattern][k] = "["
        /\ \A j \in (k + 2)..Len(ArgChars[pattern]) : ArgChars[pattern][j] # "]"

\* flagState{}
ZeroFlagState == [watch |-> <<>>, ignore |-> <<>>, gran |-> 0, exec |-> <<>>]

normalizePaths(f) ==
    IF \E k \in 1..Len(f.ignore) : BadPattern(Str(Clean(ArgChars[f.ignore[k]])))
    THEN [fls |-> ZeroFlagState, err |-> "ErrBadPattern"]
    ELSE [fls |-> [f EXCEPT !.watch = [k \in 1..Len(f.watch) |-> Abs(f.watch[k])],
                            !.ignore = [k \in 1..Len(f.ignore) |->
                                           Str(Clean(ArgChars[f.ignore[k]]))]],
          err |-> "nil"]

Fail(e) == [fls |-> ZeroFlagState, err |-> e]

\* processFlags from the label exit on
exit(f) ==
    IF Len(f.watch) = 0 THEN Fail("errNothingToWatchOver")
    ELSE normalizePaths([f EXCEPT !.gran = IF @ = 0 THEN Granularity ELSE @])

\* the checks of case flagTickSpeed, lines 161-172
tickSpeed(f, arg) ==
    IF ParseInt(arg).err THEN "errFailedToParseMilliseconds"
    ELSE IF ParseInt(arg).num <= 0 THEN "errTickSpeedNonPositive"
    ELSE IF f.gran # 0 THEN "errTickSpeedGranAlreadySet"
    ELSE "nil"

\* the loop of processFlags from argument i on
RECURSIVE flagLoop(_, _, _, _)
flagLoop(as, i, currentFlag, f) ==
    IF i > Len(as) THEN Fail("errNoExecFlag")
    ELSE IF flags(as[i]) # NoFlag THEN flagLoop(as, i + 1, flags(as[i]), f)
    ELSE IF isFlagLike(as[i]) THEN Fail("errUnknownFlag")
    ELSE CASE currentFlag = "flagWatch" ->
                flagLoop(as, i + 1, currentFlag, [f EXCEPT !.watch = Append(@, as[i])])
           [] currentFlag = "flagIgnore" ->
                flagLoop(as, i + 1, currentFlag, [f EXCEPT !.ignore = Append(@, as[i])])
           [] currentFlag = "flagExec" ->
                exit([f EXCEPT !.exec = SubSeq(as, i, Len(as))])
           [] currentFlag = "flagTickSpeed" ->
                IF tickSpeed(f, as[i]) # "nil" THEN Fail(tickSpeed(f, as[i]))
                ELSE flagLoop(as, i + 1, "flagAfterTickSpeed",
                              [f EXCEPT !.gran = Round(ParseInt(as[i]).num, Granularity)])
           [] currentFlag = "flagAfterTickSpeed" ->
                Fail("errArgAfterTickSpeedFlag")

processFlags(as) == flagLoop(as, 1, "flagWatch", ZeroFlagState)

-----------------------------------------------------------------------------
(* Configurations and platforms *)

\* flagState values processFlags can return (paths absolute, ignore cleaned)
Configs ==
    { [watch |-> <<R>>, ignore |-> <<>>],
      [watch |-> <<R>>, ignore |-> <<"d">>] }

\* further flagState values, for the scans
ScanConfigs ==
    Configs \cup
    { [watch |-> <<R>>, ignore |-> <<"a">>],
      [watch |-> <<R>>, ignore |-> <<"/r/?">>],
      [watch |-> <<RD, RA>>, ignore |-> <<>>],
      [watch |-> <<R, RDB>>, ignore |-> <<"d">>],
      [watch |-> <<R, RA>>, ignore |-> <<>>],
      [watch |-> <<RD>>, ignore |-> <<"d">>] }

Platforms == {"linux", "freebsd"}

\* the switch on runtime.GOOS in execute
Shell(os) ==
    CASE os = "windows" -> "cmd"
      [] os \in {"darwin", "linux"} -> "/bin/sh"
      [] OTHER -> "unsupported"

\* dynamic type of the value errUnsupportedOS returns
errUnsupportedOS == "unsupportedOSError"

\* dynamic type of the error cmd.Start returns
StartError == "*exec.Error"

HandleErrFatalExit(errType) ==
    CASE errType = "*unsupportedOSError" -> FALSE
      [] errType = "*startProcessFailureError" -> FALSE
      [] errType = "*exec.ExitError" -> FALSE
      [] OTHER -> TRUE

\* the type switch of executeAndHandle: the value it returns
HandleErr(errType) ==
    CASE errType = "*unsupportedOSError" -> FALSE
      [] errType = "*startProcessFailureError" -> FALSE
      [] OTHER -> TRUE

ExitCodes == {0, 1}

-----------------------------------------------------------------------------
(* main *)

config == <<fls, goos>>

\* what changes only before the loop and after main has returned
static == <<config, args, flagsErr, sendOnClosed>>

walkVars == <<encountered, visited, order>>

chans == <<signals, tickerC>>

execVars == <<child, execErr, exitReport, firstExecs, execs>>

\* main's variables before the baseline scan
InitLocals ==
    /\ currentLatestModTime = ZeroTime
    /\ latestModTime = ZeroTime
    /\ filename = NoPath
    /\ err = FALSE
    /\ dirty = FALSE
    /\ encountered = {}
    /\ visited = {}
    /\ order = <<>>
    /\ modInExec = NoPath
    /\ sendOnClosed = FALSE
    /\ signals = 0
    /\ tickerC = 0
    /\ ticker = FALSE
    /\ child = 0
    /\ execErr = "none"
    /\ exitReport = 0
    /\ firstExecs = 0
    /\ execs = 0
    /\ sigDuringChild = FALSE

InitMain ==
    /\ pc = "baseline"
    /\ InitLocals

Init ==
    /\ args = <<>>
    /\ flagsErr = "nil"
    /\ fls \in Configs
    /\ goos \in Platforms
    /\ fsys = [n \in Volatile |-> 1]
    /\ InitMain

AfterHandleNoUpdate(ok) ==
    IF ~ok
    THEN /\ pc' = "done"
         /\ UNCHANGED <<ticker, currentLatestModTime>>
    ELSE /\ pc' = "select"
         /\ ticker' = TRUE
         /\ UNCHANGED currentLatestModTime

\* main after executeAndHandle has returned ok: lines 101-106 at the first
\* call, lines 125-129 in the ticker case
AfterHandle(ok) ==
    IF ~ok
    THEN /\ pc' = "done"
         /\ UNCHANGED <<ticker, currentLatestModTime>>
    ELSE IF ~ticker
    THEN /\ pc' = "select"
         /\ ticker' = TRUE
         /\ UNCHANGED currentLatestModTime
    ELSE /\ pc' = "select"
         /\ currentLatestModTime' = latestModTime'
         /\ UNCHANGED ticker

WaitPcNoWait == "select"

\* where main is while execute blocks in cmd.Wait
WaitPc == "wait"

\* executeAndHandle(name) up to the point where execute blocks in cmd.Wait
executeAndHandle(name) ==
    /\ execs' = execs + 1
    /\ firstExecs' = IF name = NoPath THEN firstExecs + 1 ELSE firstExecs
    /\ \/ /\ Shell(goos) = "unsupported"
          /\ execErr' = errUnsupportedOS
          /\ exitReport' = 0
          /\ UNCHANGED child
          /\ AfterHandle(HandleErr(execErr'))
       \/ /\ Shell(goos) # "unsupported"
          /\ execErr' = StartError
          /\ exitReport' = 0
          /\ UNCHANGED child
          /\ AfterHandle(HandleErr(execErr'))
       \/ /\ Shell(goos) # "unsupported"
          /\ child' = child + 1
          /\ pc' = WaitPc
          /\ UNCHANGED <<execErr, exitReport, ticker, currentLatestModTime>>

AfterBaselineIgnoreErr(failed) == "first"

\* lines 96-99: main returns when the baseline scan failed
AfterBaseline(failed) == IF failed THEN "done" ELSE "first"

\* line 95: the baseline scan
BaselineScan ==
    /\ pc = "baseline"
    /\ \E fault \in Faults :
        LET s == findLatestChange(fls, fsys, fault)
        IN  /\ currentLatestModTime' = s.latestModTime
            /\ latestModTime' = s.latestModTime
            /\ filename' = s.filename
            /\ err' = s.err
            /\ pc' = AfterBaseline(s.err)
    /\ dirty' = FALSE
    /\ UNCHANGED <<static, modInExec, fsys, walkVars, chans, ticker, execVars,
                   sigDuringChild>>

FirstExecutionSkipped ==
    /\ pc = "first"
    /\ pc' = "select"
    /\ ticker' = TRUE
    /\ UNCHANGED <<static, modInExec, fsys, currentLatestModTime, latestModTime,
                   filename, err,
                   dirty, walkVars, chans, execVars, sigDuringChild>>

\* line 101: the first execution
FirstExecution ==
    /\ pc = "first"
    /\ UNCHANGED <<static, modInExec, fsys, latestModTime, filename, err, dirty,
                   walkVars, chans,
                   sigDuringChild>>
    /\ executeAndHandle(NoPath)

\* cmd.Wait returns: the child has exited with the given code
ChildExit ==
    /\ child > 0
    /\ child' = child - 1
    /\ UNCHANGED <<static, modInExec, fsys, latestModTime, filename, err, dirty,
                   walkVars, chans,
                   firstExecs, execs, sigDuringChild>>
    /\ \E code \in ExitCodes :
        IF pc = WaitPc
        THEN /\ execErr' = IF code = 0 THEN "nil" ELSE "*exec.ExitError"
             /\ exitReport' = IF execErr' = "*exec.ExitError" /\ code # 0 THEN code ELSE 0
             /\ AfterHandle(HandleErr(execErr'))
        ELSE UNCHANGED <<pc, execErr, exitReport, ticker, currentLatestModTime>>

SelectSignalKeepsLooping ==
    /\ pc = "select"
    /\ signals > 0
    /\ signals' = signals - 1
    /\ UNCHANGED <<static, modInExec, fsys, pc, currentLatestModTime, latestModTime,
                   filename, err, dirty, walkVars, tickerC, ticker, execVars,
                   sigDuringChild>>

\* case <-signals
SelectSignal ==
    /\ pc = "select"
    /\ signals > 0
    /\ signals' = signals - 1
    /\ pc' = "done"
    /\ UNCHANGED <<static, modInExec, fsys, currentLatestModTime, latestModTime,
                   filename, err,
                   dirty, walkVars, tickerC, ticker, execVars, sigDuringChild>>

\* case <-ticker.C
SelectTick ==
    /\ pc = "select"
    /\ tickerC > 0
    /\ tickerC' = tickerC - 1
    /\ dirty' = FALSE
    /\ modInExec' = NoPath
    /\ UNCHANGED <<static, fsys, walkVars, signals, sigDuringChild>>
    /\ \E fault \in Faults :
        LET s == findLatestChange(fls, fsys, fault)
        IN  /\ latestModTime' = s.latestModTime
            /\ filename' = s.filename
            /\ err' = s.err
            /\ IF s.err
               THEN /\ pc' = "done"
                    /\ UNCHANGED <<currentLatestModTime, ticker, execVars>>
               ELSE IF ~After(s.latestModTime, currentLatestModTime)
               THEN UNCHANGED <<pc, currentLatestModTime, ticker, execVars>>
               ELSE executeAndHandle(s.filename)

-----------------------------------------------------------------------------
(* The environment *)

\* the runtime delivers SIGINT or SIGTERM to the channel
Signal ==
    /\ pc # "done"
    /\ signals = 0
    /\ signals' = 1
    /\ sigDuringChild' = (sigDuringChild \/ child > 0)
    /\ UNCHANGED <<static, modInExec, fsys, pc, currentLatestModTime, latestModTime,
                   filename,
                   err, dirty, walkVars, tickerC, ticker, execVars>>

\* the ticker sends on ticker.C; a tick is dropped when one is pending
Tick ==
    /\ pc # "done"
    /\ ticker
    /\ tickerC = 0
    /\ tickerC' = 1
    /\ UNCHANGED <<static, modInExec, fsys, pc, currentLatestModTime, latestModTime,
                   filename,
                   err, dirty, walkVars, signals, ticker, execVars, sigDuringChild>>

envUnchanged ==
    UNCHANGED <<static, pc, currentLatestModTime, latestModTime, filename, err,
                walkVars, chans, ticker, execVars, sigDuringChild>>

\* an entry is written to, or its times are set
FsModify ==
    /\ pc # "done"
    /\ \E n \in DOMAIN fsys \cap Volatile, t \in Times :
        /\ fsys[n] # t
        /\ fsys' = [fsys EXCEPT ![n] = t]
        /\ modInExec' = IF child > 0 /\ pc = WaitPc /\ After(t, latestModTime)
                         THEN n ELSE NoPath
    /\ dirty' = TRUE
    /\ envUnchanged

\* an entry is created; its directory's time changes with it
FsCreate ==
    /\ pc # "done"
    /\ \E n \in Volatile \ DOMAIN fsys, t \in Times :
        /\ n = R \/ \E d \in DOMAIN fsys : Chars(d) = Parent(n)
        /\ fsys' = [m \in DOMAIN fsys \cup {n} |->
                       IF m = n \/ Chars(m) = Parent(n) THEN t ELSE fsys[m]]
    /\ modInExec' = NoPath
    /\ dirty' = TRUE
    /\ envUnchanged

\* an entry without entries of its own is removed; its directory's time changes
FsRemove ==
    /\ pc # "done"
    /\ \E n \in DOMAIN fsys \cap Volatile, t \in Times :
        /\ ReadDir(fsys, n) = <<>>
        /\ fsys' = [m \in DOMAIN fsys \ {n} |->
                       IF Chars(m) = Parent(n) THEN t ELSE fsys[m]]
    /\ modInExec' = NoPath
    /\ dirty' = TRUE
    /\ envUnchanged

Next ==
    \/ BaselineScan
    \/ FirstExecution
    \/ ChildExit
    \/ SelectSignal
    \/ SelectTick
    \/ Signal
    \/ Tick
    \/ FsModify
    \/ FsCreate
    \/ FsRemove

Spec == Init /\ [][Next]_vars

\* main goes on when it can, a child that runs exits, and the select, which
\* picks among its ready cases at random, does not pass over a ready signal
\* case forever.  The first conjunct is weak fairness of BaselineScan, which
\* is enabled exactly when pc = "baseline" and is the only step that leaves it.
Fairness ==
    /\ []<>(pc # "baseline")
    /\ WF_vars(FirstExecution)
    /\ WF_vars(ChildExit)
    /\ SF_vars(SelectSignal)

\* the loop without ignore rules
InitFair == Init /\ fls.ignore = <<>>

SpecFair == InitFair /\ [][Next]_vars /\ Fairness

\* main has returned and its deferred calls run: ticker.Stop, close(signals),
\* DisableVirtualTerminal; pc = "done" is the state after close(signals) and
\* before the process has exited, in which the channel is still registered
\* with signal.Notify

\* the runtime delivers SIGINT or SIGTERM after close(signals): the send of
\* os/signal on the closed channel panics
SignalAfterClose ==
    /\ pc = "done"
    /\ ~sendOnClosed
    /\ sendOnClosed' = TRUE
    /\ UNCHANGED <<config, args, flagsErr, modInExec, fsys, pc, currentLatestModTime,
                   latestModTime, filename, err, dirty, walkVars, chans, ticker,
                   execVars, sigDuringChild>>

NextExit ==
    \/ Next
    \/ SignalAfterClose

SpecExit == InitFair /\ [][NextExit]_vars

\* the loop with an ignore rule that matches a file, /r/a
InitIgnoredFile ==
    /\ args = <<>>
    /\ flagsErr = "nil"
    /\ fls = [watch |-> <<R>>, ignore |-> <<"a">>]
    /\ goos \in Platforms
    /\ fsys = [n \in Volatile |-> 1]
    /\ InitMain

SpecIgnoredFile == InitIgnoredFile /\ [][Next]_vars

-----------------------------------------------------------------------------
(* One scan of an arbitrary tree *)

\* the trees over Nodes: an entry exists only inside an existing directory
Trees ==
    {f \in UNION {[S -> Times] : S \in SUBSET Nodes} :
        \A n \in DOMAIN f : n = R \/ \E d \in DOMAIN f : Chars(d) = Parent(n)}

InitScan ==
    /\ args = <<>>
    /\ flagsErr = "nil"
    /\ fls \in ScanConfigs
    /\ goos = "linux"
    /\ fsys \in Trees
    /\ InitMain

\* one call of findLatestChange
Scan ==
    /\ pc = "baseline"
    /\ \E fault \in Faults :
        LET s == findLatestChange(fls, fsys, fault)
        IN  /\ latestModTime' = s.latestModTime
            /\ filename' = s.filename
            /\ err' = s.err
            /\ encountered' = s.encountered
            /\ visited' = s.visited
            /\ order' = s.order
    /\ pc' = "scanned"
    /\ UNCHANGED <<static, modInExec, fsys, currentLatestModTime, dirty, chans, ticker,
                   execVars,
                   sigDuringChild>>

NextScan == Scan

SpecScan == InitScan /\ [][NextScan]_vars

-----------------------------------------------------------------------------
(* main up to the baseline scan, for argument lists *)

MaxArgs == 3

\* the words of the argument lists
ArgWords == {"-w", "-i", "-e", "-t", "r", "r/", "[", "0", "-5", "1000", "50000000"}

\* what an argument list starts and ends with
ArgPrefixes == {<<>>, <<"-h">>, <<"r", "-t", "1000">>, <<"r", "-t", "50000000">>}

ArgSuffixes == {<<>>, <<"-e", "cmd">>}

ArgLists ==
    {pre \o mid \o suf :
        pre \in ArgPrefixes,
        mid \in UNION {[1..n -> ArgWords] : n \in 0..MaxArgs},
        suf \in ArgSuffixes}

InitFlags ==
    /\ args \in ArgLists
    /\ flagsErr = "nil"
    /\ fls = ZeroFlagState
    /\ goos = "linux"
    /\ fsys = [n \in Volatile |-> 1]
    /\ pc = "flags"
    /\ InitLocals

\* lines 77-93: help and version return at once; main returns when
\* processFlags failed and goes on to the baseline scan otherwise
MainFlags ==
    /\ pc = "flags"
    /\ IF Len(args) >= 1 /\ args[1] \in {"--help", "-h", "--version", "-v"}
       THEN /\ pc' = "done"
            /\ UNCHANGED <<fls, flagsErr>>
       ELSE /\ flagsErr' = processFlags(args).err
            /\ fls' = processFlags(args).fls
            /\ pc' = IF flagsErr' # "nil" THEN "done" ELSE "baseline"
    /\ UNCHANGED <<args, goos, sendOnClosed, modInExec, fsys, currentLatestModTime,
                   latestModTime, filename, err, dirty, walkVars, chans, ticker,
                   execVars, sigDuringChild>>

NextFlags == MainFlags

SpecFlags == InitFlags /\ [][NextFlags]_vars

-----------------------------------------------------------------------------
(* Properties of the watch loop *)

\* a step of the ticker case: it takes the pending tick and scans
TickScan == tickerC' < tickerC

\* a step that calls executeAndHandle
ExecStarted == execs' = execs + 1

\* C1: the first execution happens exactly once, unconditionally right after
\* the baseline scan, and before the ticker exists or any tick is taken
C1_FirstExecutionOnce ==
    /\ [](/\ firstExecs <= 1
          /\ (pc \in {"baseline", "first"} => firstExecs = 0 /\ execs = 0 /\ ~ticker)
          /\ (pc \in {"wait", "select"} => firstExecs = 1)
          /\ (ticker => firstExecs = 1))
    /\ [][/\ (pc = "first" /\ pc' # "first") => (firstExecs' = 1 /\ execs' = 1)
          /\ TickScan => (firstExecs = 1 /\ execs >= 1)
          /\ (ExecStarted /\ execs >= 1) => firstExecs' = firstExecs]_vars

C1_Witness ==
    /\ pc = "select"
    /\ firstExecs = 1
    /\ execs = 1
    /\ tickerC = 1

\* C2: a tick starts an execution exactly when its scan succeeded with a time
\* strictly after the baseline; a scan of an unmodified filesystem returns
\* the time and path of the scan before it and starts no execution
C2_ExecIffStrictlyNewer ==
    [][TickScan =>
        /\ ExecStarted <=> (~err' /\ latestModTime' > currentLatestModTime)
        /\ ~ExecStarted => execs' = execs
        /\ (~dirty /\ ~err') =>
              /\ latestModTime' = latestModTime
              /\ filename' = filename
              /\ execs' = execs]_vars

C2_Witness ==
    /\ pc = "wait"
    /\ execs = 2
    /\ ~err
    /\ latestModTime > currentLatestModTime
    /\ filename # NoPath

\* C3: the baseline never decreases; after the baseline scan it changes only
\* to the time of a tick's scan that was strictly after it
C3_BaselineMonotonic ==
    [][/\ currentLatestModTime' >= currentLatestModTime
       /\ currentLatestModTime' # currentLatestModTime =>
             \/ pc = "baseline"
             \/ /\ ticker
                /\ ~err'
                /\ currentLatestModTime' = latestModTime'
                /\ latestModTime' > currentLatestModTime]_vars

C3_Witness ==
    /\ pc = "select"
    /\ execs >= 2
    /\ currentLatestModTime = MaxTime
    /\ latestModTime < currentLatestModTime
    /\ ~dirty

\* C4: once the child process could not be started, main has returned
C4_StartFailureFatal == execErr = StartError => pc = "done"

\* C5: once execute has returned the unsupported-platform error, main has
\* returned
C5_UnsupportedPlatformFatal == execErr = errUnsupportedOS => pc = "done"

\* C6: a child that exits with a non-zero status is reported and main goes
\* back to the select; a later tick with a strictly newer time executes again
C6_NonZeroExitNotFatal ==
    /\ [][(child' < child /\ execErr' = "*exec.ExitError") =>
             (pc' = "select" /\ exitReport' # 0)]_vars
    /\ [][(execErr = "*exec.ExitError" /\ TickScan /\ ~err'
              /\ latestModTime' > currentLatestModTime) => ExecStarted]_vars

C6_Witness ==
    /\ pc = "wait"
    /\ execs >= 2
    /\ execErr = "*exec.ExitError"
    /\ exitReport # 0

\* C7: a scan that fails ends main: the baseline scan before the first
\* execution, a tick's scan without an execution, and nothing runs afterwards
C7_ScanErrorFatal ==
    /\ [](err => (pc = "done" /\ child = 0 /\ (~ticker => execs = 0)))
    /\ [][(err' /\ ~err) => (pc' = "done" /\ execs' = execs /\ child' = child)]_vars
    /\ [][pc = "done" => (pc' = "done" /\ execs' = execs /\ tickerC' = tickerC)]_vars

C7_Witness ==
    /\ err
    /\ pc = "done"
    /\ ticker
    /\ execs = 1
    /\ dirty = FALSE

\* C8: at most one child is alive, main is blocked in Wait while it is, and
\* neither a scan nor another execution starts while a child is alive
C8_NoOverlap ==
    /\ [](child <= 1 /\ (child = 1 => pc = "wait"))
    /\ [][TickScan => (child = 0 /\ child' <= 1)]_vars
    /\ [][ExecStarted => child = 0]_vars

C8_Witness ==
    /\ child = 1
    /\ pc = "wait"
    /\ tickerC = 1
    /\ dirty
    /\ execs = 2

\* C9: after a signal was delivered while a child was running, main takes no
\* tick, scans nothing and starts no execution
C9_NoWorkAfterSignal ==
    [][sigDuringChild => (~TickScan /\ ~ExecStarted)]_vars

-----------------------------------------------------------------------------
(* Properties of one scan *)

\* path d lies beneath path p
Beneath(d, p) ==
    /\ Len(Chars(d)) > Len(Chars(p)) + 1
    /\ SubSeq(Chars(d), 1, Len(Chars(p)) + 1) = Chars(p) \o <<Sep>>

\* path p ends with an ignore entry
EndsWithIgnore(p) ==
    \E i \in 1..Len(fls.ignore) : HasSuffix(Chars(p), Chars(fls.ignore[i]))

\* the paths the scan read or reported
Reported == visited \cup ({filename} \ {NoPath})

\* C10 as stated: an encountered path that ends with an ignore entry is not
\* read or reported, and neither is any path beneath it
C10_IgnoredSubtreeNeverReported ==
    pc = "scanned" =>
        \A p \in encountered :
            EndsWithIgnore(p) =>
                /\ p \notin Reported
                /\ \A d \in Reported : ~Beneath(d, p)

\* C10 amended: an encountered path that ends with an ignore entry is not read
\* or reported, the walk does not descend into it, and a path beneath it is
\* read or reported only when it is a watch root itself or lies beneath a
\* watch root that lies beneath the ignored path
C10_IgnoredNotDescended ==
    pc = "scanned" =>
        \A p \in encountered :
            EndsWithIgnore(p) =>
                /\ p \notin Reported
                /\ \A d \in encountered \cup Reported :
                      Beneath(d, p) =>
                          \E i \in 1..Len(fls.watch) :
                              /\ Beneath(fls.watch[i], p)
                              /\ (d = fls.watch[i] \/ Beneath(d, fls.watch[i]))

C10_Witness ==
    /\ pc = "scanned"
    /\ ~err
    /\ fls.watch = <<R>>
    /\ fls.ignore = <<"d">>
    /\ RD \in encountered
    /\ RDB \in DOMAIN fsys
    /\ fsys[RDB] > latestModTime
    /\ filename = R
    /\ RDB \notin encountered

\* the greatest time of a set of times, the zero time for the empty set
SetMax(S) == IF S = {} THEN ZeroTime ELSE CHOOSE m \in S : \A x \in S : x <= m

\* entry n is the watch root or lies beneath it
UnderRoot(n, root) == n = root \/ Beneath(n, root)

\* between the watch root and entry n, both included, an entry matches an
\* ignore rule
Excluded(n, root) ==
    \E p \in DOMAIN fsys :
        /\ UnderRoot(p, root)
        /\ p = n \/ Beneath(n, p)
        /\ Ignored(fls.ignore, p)

\* the entries under the watch roots that neither match an ignore rule nor
\* lie beneath a directory that matches one
NonExcluded ==
    {n \in DOMAIN fsys :
        \E i \in 1..Len(fls.watch) :
            UnderRoot(n, fls.watch[i]) /\ ~Excluded(n, fls.watch[i])}

\* C11: a scan without error has read every entry under the watch roots that
\* is neither ignored nor beneath an ignored directory, and its latest
\* modification time is the greatest time of these entries
C11_ScanCoversNonExcluded ==
    (pc = "scanned" /\ ~err) =>
        /\ NonExcluded \subseteq visited
        /\ latestModTime = SetMax({fsys[n] : n \in NonExcluded})

\* the place of path p in the order in which the scan read the entries
Pos(p) == CHOOSE i \in 1..Len(order) : order[i] = p /\ \A j \in 1..(i - 1) : order[j] # p

\* byte-wise order of two paths
RECURSIVE LexLess(_, _)
LexLess(s, t) ==
    IF s = <<>> THEN t # <<>>
    ELSE IF t = <<>> THEN FALSE
    ELSE IF Head(s) = Head(t) THEN LexLess(Tail(s), Tail(t))
    ELSE Ord(Head(s)) < Ord(Head(t))

\* the entries were read root by root in the configured order, and beneath
\* one root a directory before its entries and the entries by name
TraversalOrdered ==
    \A i, j \in 1..Len(order) :
        i < j =>
            \E ri, rj \in 1..Len(fls.watch) :
                /\ ri <= rj
                /\ UnderRoot(order[i], fls.watch[ri])
                /\ UnderRoot(order[j], fls.watch[rj])
                /\ ri = rj => LexLess(Chars(order[i]), Chars(order[j]))

\* C17: a scan without error reports an entry that has the greatest
\* modification time of the entries read, and of the entries that have it the
\* one read first, roots in configured order and then walk order
C17_TieFirstEncountered ==
    (pc = "scanned" /\ ~err /\ visited # {}) =>
        /\ TraversalOrdered
        /\ filename \in visited
        /\ fsys[filename] = latestModTime
        /\ \A n \in visited :
              /\ fsys[n] <= latestModTime
              /\ fsys[n] = latestModTime => Pos(filename) <= Pos(n)

\* two roots with the same time: the first configured one is reported, not
\* the first by name
C17_Witness ==
    /\ pc = "scanned"
    /\ ~err
    /\ fls.watch = <<RD, RA>>
    /\ order = <<RD, RA>>
    /\ fsys[RD] = fsys[RA]
    /\ filename = RD

\* no entry at or beneath a watch root is a file
NoFiles ==
    \A n \in DOMAIN fsys :
        (\E i \in 1..Len(fls.watch) : UnderRoot(n, fls.watch[i])) => IsDir(n)

\* C18 as stated: a scan without error over watch roots that hold no file
\* returns the zero time and the empty path
C18_NoFilesZeroResult ==
    (pc = "scanned" /\ ~err /\ NoFiles) =>
        latestModTime = ZeroTime /\ filename = NoPath

\* C18, amended: a scan without error returns the zero time and the empty
\* path exactly when it read no entry, which is when every watch root matches
\* an ignore rule; a root that matches none is read itself, directory or not,
\* and the scan returns a time no earlier than the root's and a path
C18_ZeroOnlyWhenNothingRead ==
    (pc = "scanned" /\ ~err) =>
        /\ visited = {} <=> (latestModTime = ZeroTime /\ filename = NoPath)
        /\ visited = {} <=>
              \A i \in 1..Len(fls.watch) : Ignored(fls.ignore, fls.watch[i])
        /\ \A i \in 1..Len(fls.watch) :
              ~Ignored(fls.ignore, fls.watch[i]) =>
                  /\ fls.watch[i] \in visited
                  /\ latestModTime >= fsys[fls.watch[i]]
                  /\ filename # NoPath

\* a single empty directory as the watch root: its own time and path are
\* the result
C18_Witness ==
    /\ pc = "scanned"
    /\ ~err
    /\ fls.watch = <<R>>
    /\ fls.ignore = <<>>
    /\ DOMAIN fsys = {R}
    /\ latestModTime = fsys[R]
    /\ filename = R

-----------------------------------------------------------------------------
(* The baseline and the execution *)

\* C14 as stated: while the command started by a tick runs, the baseline
\* already equals the latest modification time of the scan that started it
C14_BaselineSetBeforeExec ==
    (pc = WaitPc /\ ticker /\ child > 0) => currentLatestModTime = latestModTime

\* C14, amended: while the command started by a tick runs the baseline keeps
\* the value it had at the scan, earlier than the scan's latest modification
\* time, and it takes that time in the step in which the command returns to
\* the loop
C14_BaselineSetAfterExec ==
    [][/\ (pc' = WaitPc /\ ticker') =>
            /\ After(latestModTime', currentLatestModTime')
            /\ currentLatestModTime' = currentLatestModTime
       /\ (pc = WaitPc /\ ticker /\ pc' = "select") =>
            /\ latestModTime' = latestModTime
            /\ currentLatestModTime' = latestModTime]_vars

\* back in the loop after a command that a tick started, the baseline moved
C14_Witness ==
    /\ pc = "select"
    /\ execs = 2
    /\ child = 0
    /\ execErr \in {"nil", "*exec.ExitError"}
    /\ currentLatestModTime = latestModTime
    /\ currentLatestModTime > 1

\* C15: an entry that is neither ignored nor beneath an ignored directory
\* was stamped, while the command ran, later than the latest time of the scan
\* before it: the first scan without error after the command returned starts
\* one execution, with no child alive, and a scan of a filesystem unchanged
\* since the scan before it starts none
C15_ModDuringExecOneMoreExec ==
    [][TickScan =>
        /\ (modInExec \in NonExcluded /\ ~err') =>
              /\ child = 0
              /\ ExecStarted
              /\ After(latestModTime', currentLatestModTime)
        /\ ~dirty => execs' = execs]_vars

-----------------------------------------------------------------------------
(* The tick speed *)

\* main went through processFlags
Processed ==
    /\ pc # "flags"
    /\ ~(Len(args) >= 1 /\ args[1] = "-h")

\* argument k is the value of a tick-speed flag, a number, and processFlags
\* comes to it: the arguments before it raise no error and start no command
TickValueAt(k) ==
    /\ k \in 2..Len(args)
    /\ flags(args[k - 1]) = "flagTickSpeed"
    /\ flags(args[k]) = NoFlag
    /\ ~ParseInt(args[k]).err
    /\ processFlags(SubSeq(args, 1, k - 1)).err = "errNoExecFlag"

TickValue(k) == ParseInt(args[k]).num

\* C12: a tick-speed flag with the value 0 or a negative number makes
\* processFlags fail with errTickSpeedNonPositive, and main returns
C12_NonPositiveTickSpeedRejected ==
    Processed =>
        \A k \in 1..Len(args) :
            (TickValueAt(k) /\ TickValue(k) <= 0) =>
                flagsErr = "errTickSpeedNonPositive" /\ pc = "done"

\* C13: when processFlags succeeds the ticker's interval is the tick-speed
\* value in milliseconds, rounded to the granularity, and the granularity
\* itself only when no tick speed was given
C13_IntervalIsMilliseconds ==
    (Processed /\ flagsErr = "nil") =>
        /\ \A k \in 1..Len(args) :
              (TickValueAt(k) /\ TickValue(k) > 0) =>
                  /\ fls.gran % Millisecond = 0
                  /\ fls.gran \div Millisecond =
                        Round(TickValue(k), Granularity \div Millisecond)
        /\ (\A k \in 1..Len(args) : ~TickValueAt(k)) => fls.gran = Granularity

\* C19: a positive tick-speed value that follows an accepted one makes
\* processFlags fail with errTickSpeedGranAlreadySet, and main returns
C19_SecondTickSpeedRejected ==
    Processed =>
        \A j, k \in 1..Len(args) :
            (/\ j < k
             /\ TickValueAt(j) /\ TickValue(j) > 0
             /\ TickValueAt(k) /\ TickValue(k) > 0) =>
                flagsErr = "errTickSpeedGranAlreadySet" /\ pc = "done"

-----------------------------------------------------------------------------
(* Termination *)

C20_NoSendOnClosedChannel == ~sendOnClosed

=============================================================================
